---- MODULE Spec2Model ----
(***************************************************************************)
(* Client storage of AdGuardHome (internal/client): the persistent client  *)
(* index guarded by Storage.mu, the map of runtime clients, which no lock  *)
(* guards, and the operations of Storage on both.                          *)
(*                                                                         *)
(* A persistent client is a record of its identifiers.  The storage owns   *)
(* a client once it is added (the caller keeps no reference to it), so     *)
(* clients are values here; what a lookup returns is a value together with *)
(* whether it is the stored client itself or a copy.                       *)
(***************************************************************************)
EXTENDS Integers, FiniteSets, Sequences, TLC

\* Bounds of the model: the sizes of the identifier spaces, the number of
\* calling goroutines, and the numbers of sources and of payloads a source
\* can give.
NumUIDs == 2
NumNames == 2
NumIPs == 2
NumSubnets == 1
NumClientIDs == 1
NumMACs == 1
NumThreads == 2
NumSources == 2
NumPayloads == 2

UIDs == 1..NumUIDs
Names == 1..NumNames
IPs == 1..NumIPs
Subnets == 1..NumSubnets
ClientIDs == 1..NumClientIDs
MACs == 1..NumMACs
Threads == 1..NumThreads

\* A MAC is optional: MAC is the empty set or a singleton.
OptMACs == {{}} \cup {{m} : m \in MACs}

\* The clients a caller may submit.
Persistents ==
    [UID : UIDs, Name : Names, IPs : SUBSET IPs, Subnets : SUBSET Subnets,
     ClientIDs : SUBSET ClientIDs, MAC : OptMACs]

\* The nil *Persistent.
NoClient ==
    [UID |-> 0, Name |-> 0, IPs |-> {}, Subnets |-> {}, ClientIDs |-> {}, MAC |-> {}]

----------------------------------------------------------------------------
\* Errors.  kind names the error, ctx the annotation added by the storage,
\* value the offending value and holder the name of the client that holds it.

Nil == [kind |-> "nil", ctx |-> "", value |-> 0, holder |-> 0]

Err(kind, value, holder) ==
    [kind |-> kind, ctx |-> "", value |-> value, holder |-> holder]

\* errors.Annotate: a nil error stays nil, any other gets the context.
Annotate(err, ctx) == IF err = Nil THEN Nil ELSE [err EXCEPT !.ctx = ctx]

NotFoundErr(name) == Err("NotFound", name, 0)

Min(S) == CHOOSE x \in S : \A y \in S : x <= y

Max(S) == CHOOSE x \in S : \A y \in S : x >= y

----------------------------------------------------------------------------
\* The identifier index: parallel lookup maps over the persistent clients.

Put(f, k, v) == (k :> v) @@ f

PutAll(f, K, v) == [k \in K |-> v] @@ f

Drop(f, K) == [k \in DOMAIN f \ K |-> f[k]]

NewIndex ==
    [uidToClient |-> <<>>, nameToUID |-> <<>>, ipToUID |-> <<>>,
     subnetToUID |-> <<>>, clientIDToUID |-> <<>>, macToUID |-> <<>>]

\* The client stored under uid, nil when there is none.
ClientOf(ci, uid) ==
    IF uid \in DOMAIN ci.uidToClient THEN ci.uidToClient[uid] ELSE NoClient

IndexSize(ci) == Cardinality(DOMAIN ci.uidToClient)

IndexAdd(ci, c) ==
    [uidToClient |-> Put(ci.uidToClient, c.UID, c),
     nameToUID |-> Put(ci.nameToUID, c.Name, c.UID),
     ipToUID |-> PutAll(ci.ipToUID, c.IPs, c.UID),
     subnetToUID |-> PutAll(ci.subnetToUID, c.Subnets, c.UID),
     clientIDToUID |-> PutAll(ci.clientIDToUID, c.ClientIDs, c.UID),
     macToUID |-> PutAll(ci.macToUID, c.MAC, c.UID)]

IndexDelete(ci, c) ==
    [uidToClient |-> Drop(ci.uidToClient, {c.UID}),
     nameToUID |-> Drop(ci.nameToUID, {c.Name}),
     ipToUID |-> Drop(ci.ipToUID, c.IPs),
     subnetToUID |-> Drop(ci.subnetToUID, c.Subnets),
     clientIDToUID |-> Drop(ci.clientIDToUID, c.ClientIDs),
     macToUID |-> Drop(ci.macToUID, c.MAC)]

IndexFindByName(ci, name) ==
    IF name \in DOMAIN ci.nameToUID
    THEN [c |-> ClientOf(ci, ci.nameToUID[name]), found |-> TRUE]
    ELSE [c |-> NoClient, found |-> FALSE]

IndexClashesUID(ci, c) ==
    IF c.UID \in DOMAIN ci.uidToClient
    THEN Err("DuplicateUID", c.UID, ci.uidToClient[c.UID].Name)
    ELSE Nil

\* The values of vals that map m gives to a client other than uid.
Taken(m, vals, uid) == {v \in vals : v \in DOMAIN m /\ m[v] # uid}

\* The error for the least taken value of one identifier space, nil if none.
ClashIn(ci, kind, m, vals, uid) ==
    LET taken == Taken(m, vals, uid)
    IN  IF taken = {} THEN Nil
        ELSE Err(kind, Min(taken), ClientOf(ci, m[Min(taken)]).Name)

\* As IndexClashes, with the client-ids examined before the IPs.
IndexClashes_ClientIDFirst(ci, c) ==
    LET byName == ClashIn(ci, "DuplicateName", ci.nameToUID, {c.Name}, c.UID)
        byIP == ClashIn(ci, "DuplicateIP", ci.ipToUID, c.IPs, c.UID)
        bySubnet == ClashIn(ci, "DuplicateSubnet", ci.subnetToUID, c.Subnets, c.UID)
        byClientID ==
            ClashIn(ci, "DuplicateClientID", ci.clientIDToUID, c.ClientIDs, c.UID)
        byMAC == ClashIn(ci, "DuplicateMAC", ci.macToUID, c.MAC, c.UID)
    IN  IF byName # Nil THEN byName
        ELSE IF byClientID # Nil THEN byClientID
        ELSE IF byIP # Nil THEN byIP
        ELSE IF bySubnet # Nil THEN bySubnet
        ELSE byMAC

IndexClashes(ci, c) ==
    LET byName == ClashIn(ci, "DuplicateName", ci.nameToUID, {c.Name}, c.UID)
        byIP == ClashIn(ci, "DuplicateIP", ci.ipToUID, c.IPs, c.UID)
        bySubnet == ClashIn(ci, "DuplicateSubnet", ci.subnetToUID, c.Subnets, c.UID)
        byClientID ==
            ClashIn(ci, "DuplicateClientID", ci.clientIDToUID, c.ClientIDs, c.UID)
        byMAC == ClashIn(ci, "DuplicateMAC", ci.macToUID, c.MAC, c.UID)
    IN  IF byName # Nil THEN byName
        ELSE IF byIP # Nil THEN byIP
        ELSE IF bySubnet # Nil THEN bySubnet
        ELSE IF byClientID # Nil THEN byClientID
        ELSE byMAC

----------------------------------------------------------------------------
\* Storage: the handlers as functions of the index and their arguments.

\* As AddChecks, with Clashes before ClashesUID.
AddChecks_ClashesFirst(ci, p) ==
    LET err == IndexClashes(ci, p)
    IN  IF err # Nil THEN err ELSE IndexClashesUID(ci, p)

\* The two checks of Add, ClashesUID first.
AddChecks(ci, p) ==
    LET errUID == IndexClashesUID(ci, p)
    IN  IF errUID # Nil THEN errUID ELSE IndexClashes(ci, p)

\* As StorageAdd, without the call of Clashes.
StorageAdd_NoClashes(ci, p) ==
    LET err == IndexClashesUID(ci, p)
    IN  IF err # Nil
        THEN [index |-> ci, err |-> Annotate(err, "adding client")]
        ELSE [index |-> IndexAdd(ci, p), err |-> Nil]

\* As StorageAdd, with the client put into the index before the checks.
StorageAdd_AddFirst(ci, p) ==
    LET err == AddChecks(ci, p)
    IN  [index |-> IndexAdd(ci, p), err |-> Annotate(err, "adding client")]

StorageAdd(ci, p) ==
    LET err == AddChecks(ci, p)
    IN  IF err # Nil
        THEN [index |-> ci, err |-> Annotate(err, "adding client")]
        ELSE [index |-> IndexAdd(ci, p), err |-> Nil]

\* As StorageUpdate, without the deletion of the stored client.
StorageUpdate_NoDelete(ci, name, n) ==
    LET f == IndexFindByName(ci, name)
        withUID == [n EXCEPT !.UID = f.c.UID]
        err == IndexClashes(ci, withUID)
    IN  IF ~f.found
        THEN [index |-> ci, n |-> n,
              err |-> Annotate(NotFoundErr(name), "updating client")]
        ELSE IF err # Nil
        THEN [index |-> ci, n |-> withUID, err |-> Annotate(err, "updating client")]
        ELSE [index |-> IndexAdd(ci, withUID), n |-> withUID, err |-> Nil]

\* As StorageUpdate, with the stored client deleted before the clash check.
StorageUpdate_DeleteFirst(ci, name, n) ==
    LET f == IndexFindByName(ci, name)
        withUID == [n EXCEPT !.UID = f.c.UID]
        deleted == IndexDelete(ci, f.c)
        err == IndexClashes(deleted, withUID)
    IN  IF ~f.found
        THEN [index |-> ci, n |-> n,
              err |-> Annotate(NotFoundErr(name), "updating client")]
        ELSE IF err # Nil
        THEN [index |-> deleted, n |-> withUID,
              err |-> Annotate(err, "updating client")]
        ELSE [index |-> IndexAdd(deleted, withUID), n |-> withUID, err |-> Nil]

\* As StorageUpdate, with the client keeping the UID it came with.
StorageUpdate_KeepsUID(ci, name, n) ==
    LET f == IndexFindByName(ci, name)
        err == IndexClashes(ci, n)
    IN  IF ~f.found
        THEN [index |-> ci, n |-> n,
              err |-> Annotate(NotFoundErr(name), "updating client")]
        ELSE IF err # Nil
        THEN [index |-> ci, n |-> n, err |-> Annotate(err, "updating client")]
        ELSE [index |-> IndexAdd(IndexDelete(ci, f.c), n), n |-> n, err |-> Nil]

\* As StorageUpdate, with the clash check made before the UID is replaced.
StorageUpdate_CheckBeforeUID(ci, name, n) ==
    LET f == IndexFindByName(ci, name)
        withUID == [n EXCEPT !.UID = f.c.UID]
        err == IndexClashes(ci, n)
    IN  IF ~f.found
        THEN [index |-> ci, n |-> n,
              err |-> Annotate(NotFoundErr(name), "updating client")]
        ELSE IF err # Nil
        THEN [index |-> ci, n |-> n, err |-> Annotate(err, "updating client")]
        ELSE [index |-> IndexAdd(IndexDelete(ci, f.c), withUID), n |-> withUID,
              err |-> Nil]

\* n is the caller's client after the call: Update overwrites its UID.
StorageUpdate(ci, name, n) ==
    LET f == IndexFindByName(ci, name)
        withUID == [n EXCEPT !.UID = f.c.UID]
        err == IndexClashes(ci, withUID)
    IN  IF ~f.found
        THEN [index |-> ci, n |-> n,
              err |-> Annotate(NotFoundErr(name), "updating client")]
        ELSE IF err # Nil
        THEN [index |-> ci, n |-> withUID, err |-> Annotate(err, "updating client")]
        ELSE [index |-> IndexAdd(IndexDelete(ci, f.c), withUID), n |-> withUID,
              err |-> Nil]

\* As StorageRemoveByName, leaving the client stored when closing the
\* upstreams fails.
StorageRemoveByName_KeepsOnCloseErr(ci, name, closeErr) ==
    LET f == IndexFindByName(ci, name)
    IN  IF ~f.found
        THEN [index |-> ci, ok |-> FALSE, logged |-> FALSE]
        ELSE [index |-> IF closeErr THEN ci ELSE IndexDelete(ci, f.c),
              ok |-> TRUE, logged |-> closeErr]

\* As StorageRemoveByName, giving up when closing the upstreams fails.
StorageRemoveByName_StopOnCloseErr(ci, name, closeErr) ==
    LET f == IndexFindByName(ci, name)
    IN  IF ~f.found \/ closeErr
        THEN [index |-> ci, ok |-> FALSE, logged |-> f.found /\ closeErr]
        ELSE [index |-> IndexDelete(ci, f.c), ok |-> TRUE, logged |-> FALSE]

\* closeErr: whether p.CloseUpstreams fails; the failure is only logged.
StorageRemoveByName(ci, name, closeErr) ==
    LET f == IndexFindByName(ci, name)
    IN  IF ~f.found
        THEN [index |-> ci, ok |-> FALSE, logged |-> FALSE]
        ELSE [index |-> IndexDelete(ci, f.c), ok |-> TRUE, logged |-> closeErr]

----------------------------------------------------------------------------
\* Runtime clients.  A runtime client is its address and the information each
\* source has given about it: info maps a source to its payload.

Sources == 1..NumSources
Payloads == 1..NumPayloads

Infos == UNION {[S -> Payloads] : S \in SUBSET Sources}

\* The runtime clients a caller may pass, one without information included.
Runtimes == [ip : IPs, info : Infos]

\* The nil *Runtime.
NoRuntime == [ip |-> 0, info |-> <<>>]

\* Runtime.unset.
Unset(rc, src) == [rc EXCEPT !.info = Drop(rc.info, {src})]

\* Runtime.isEmpty.
IsEmpty(rc) == DOMAIN rc.info = {}

NewRuntimeIndex == <<>>

StorageClientRuntime(ri, ip) == IF ip \in DOMAIN ri THEN ri[ip] ELSE NoRuntime

\* As StorageAddRuntime, merging the information into the entry of the address.
StorageAddRuntime_Merges(ri, rc) ==
    LET ip == rc.ip
    IN  IF ip \in DOMAIN ri
        THEN Put(ri, ip, [rc EXCEPT !.info = rc.info @@ ri[ip].info])
        ELSE Put(ri, ip, rc)

StorageAddRuntime(ri, rc) ==
    LET ip == rc.ip
    IN  Put(ri, ip, rc)

StorageSizeRuntime(ri) == Cardinality(DOMAIN ri)

StorageDeleteRuntime(ri, ip) == Drop(ri, {ip})

\* One round of the loop of DeleteBySource, for the entry of ip.
DeleteBySourceVisit(ri, ip, src) ==
    LET rc == Unset(ri[ip], src)
    IN  IF IsEmpty(rc)
        THEN [runtimeIndex |-> Drop(ri, {ip}), n |-> 1]
        ELSE [runtimeIndex |-> Put(ri, ip, rc), n |-> 0]

\* The loop over the entries of ips, n counting the entries removed.
RECURSIVE DeleteBySourceRange(_, _, _, _)
DeleteBySourceRange(ri, ips, src, n) ==
    IF ips = {}
    THEN [runtimeIndex |-> ri, n |-> n]
    ELSE LET ip == CHOOSE i \in ips : TRUE
             r == DeleteBySourceVisit(ri, ip, src)
         IN  DeleteBySourceRange(r.runtimeIndex, ips \ {ip}, src, n + r.n)

StorageDeleteBySource(ri, src) == DeleteBySourceRange(ri, DOMAIN ri, src, 0)

\* An identifier as Find reads it from its string: a client ID, an IP address
\* or a MAC; and none.
IDs ==
    [space : {"clientid"}, v : ClientIDs] \cup [space : {"ip"}, v : IPs]
        \cup [space : {"mac"}, v : MACs]

NoID == [space |-> "none", v |-> 0]

----------------------------------------------------------------------------
\* State.

VARIABLES
    index,  \* Storage.index
    mu,     \* Storage.mu: TRUE while locked
    pc,     \* where each goroutine is in its call
    call,   \* the latest call of each goroutine, with its arguments on entry
    ret,    \* what that call returned and logged
    freed,  \* history: the names a call released and no earlier call took again
    runtimeIndex,   \* Storage.runtimeIndex
    local   \* the loop of each goroutine: what it has yet to visit, and whether
            \* it is inside the function it was given to call

vars == <<index, mu, pc, call, ret, freed, runtimeIndex, local>>

\* No call: the arguments of every operation at their zero values.
NoCall ==
    [op |-> "none", name |-> 0, p |-> NoClient, id |-> NoID, f |-> "none",
     ip |-> 0, src |-> 0, rc |-> NoRuntime]

\* No result: c and shared are the client a lookup returned and whether it is
\* the stored client itself, rc the runtime client returned.
NoRet ==
    [err |-> Nil, ok |-> FALSE, logged |-> FALSE, n |-> NoClient,
     c |-> NoClient, shared |-> FALSE, size |-> 0, rc |-> NoRuntime]

NoLocal == [iter |-> {}, nested |-> FALSE]

Init ==
    /\ index = NewIndex
    /\ mu = FALSE
    /\ pc = [t \in Threads |-> "idle"]
    /\ call = [t \in Threads |-> NoCall]
    /\ ret = [t \in Threads |-> NoRet]
    /\ freed = {}
    /\ runtimeIndex = NewRuntimeIndex
    /\ local = [t \in Threads |-> NoLocal]

----------------------------------------------------------------------------
\* The handlers, each one step from Lock to the deferred Unlock.  A goroutine
\* holds the outcome of its call ("returned") until it drops it with Return.

Add(t, p) ==
    /\ pc[t] = "idle"
    /\ ~mu
    /\ LET r == StorageAdd(index, p)
       IN  /\ index' = r.index
           /\ ret' = [ret EXCEPT ![t] = [NoRet EXCEPT !.err = r.err]]
    /\ call' = [call EXCEPT ![t] = [NoCall EXCEPT !.op = "Add", !.p = p]]
    /\ pc' = [pc EXCEPT ![t] = "returned"]
    /\ UNCHANGED <<mu, runtimeIndex, local>>

Update(t, name, n) ==
    /\ pc[t] = "idle"
    /\ ~mu
    /\ LET r == StorageUpdate(index, name, n)
       IN  /\ index' = r.index
           /\ ret' = [ret EXCEPT ![t] = [NoRet EXCEPT !.err = r.err, !.n = r.n]]
    /\ call' = [call EXCEPT ![t] = [NoCall EXCEPT !.op = "Update", !.name = name, !.p = n]]
    /\ pc' = [pc EXCEPT ![t] = "returned"]
    /\ UNCHANGED <<mu, runtimeIndex, local>>

RemoveByName(t, name, closeErr) ==
    /\ pc[t] = "idle"
    /\ ~mu
    /\ LET r == StorageRemoveByName(index, name, closeErr)
       IN  /\ index' = r.index
           /\ ret' = [ret EXCEPT ![t] = [NoRet EXCEPT !.ok = r.ok, !.logged = r.logged]]
    /\ call' = [call EXCEPT ![t] = [NoCall EXCEPT !.op = "RemoveByName", !.name = name]]
    /\ pc' = [pc EXCEPT ![t] = "returned"]
    /\ UNCHANGED <<mu, runtimeIndex, local>>

Return(t) ==
    /\ pc[t] = "returned"
    /\ pc' = [pc EXCEPT ![t] = "idle"]
    /\ call' = [call EXCEPT ![t] = NoCall]
    /\ ret' = [ret EXCEPT ![t] = NoRet]
    /\ UNCHANGED <<index, mu, runtimeIndex, local>>

\* The history variable: untouched, or extended by the names the call
\* released; when the outcome is dropped, the names taken again are forgotten.
NoHistory == UNCHANGED freed

Released == {name \in DOMAIN index.nameToUID : name \notin DOMAIN index'.nameToUID}

History == freed' = freed \cup Released

Forget == freed' = freed \ DOMAIN index.nameToUID

\* The goroutine of the sequential specifications.
Main == Min(Threads)

\* Calls arrive one after another.
Next ==
    \/ \E p \in Persistents : Add(Main, p) /\ NoHistory
    \/ \E name \in Names, n \in Persistents : Update(Main, name, n) /\ NoHistory
    \/ \E name \in Names, closeErr \in BOOLEAN :
            RemoveByName(Main, name, closeErr) /\ NoHistory
    \/ Return(Main) /\ NoHistory

Spec == Init /\ [][Next]_vars

\* The same, recording the released names.
NextHist ==
    \/ \E p \in Persistents : Add(Main, p) /\ History
    \/ \E name \in Names, n \in Persistents : Update(Main, name, n) /\ History
    \/ \E name \in Names, closeErr \in BOOLEAN :
            RemoveByName(Main, name, closeErr) /\ History
    \/ Return(Main) /\ Forget

SpecHist == Init /\ [][NextHist]_vars

----------------------------------------------------------------------------
\* Concurrent calls of Add, one per goroutine, in the steps another goroutine
\* can come between: the call, Lock, the two checks, the insertion, Unlock.

AddCall(t, p) ==
    /\ pc[t] = "idle"
    /\ call[t] = NoCall
    /\ call' = [call EXCEPT ![t] = [NoCall EXCEPT !.op = "Add", !.p = p]]
    /\ pc' = [pc EXCEPT ![t] = "lock"]
    /\ UNCHANGED <<index, mu, ret, freed, runtimeIndex, local>>

\* As Lock, without waiting for the mutex to be free.
Lock_NoMutex(t) ==
    /\ pc[t] = "lock"
    /\ mu' = TRUE
    /\ pc' = [pc EXCEPT ![t] = "check"]
    /\ UNCHANGED <<index, call, ret, freed, runtimeIndex, local>>

Lock(t) ==
    /\ pc[t] = "lock"
    /\ ~mu
    /\ mu' = TRUE
    /\ pc' = [pc EXCEPT ![t] = "check"]
    /\ UNCHANGED <<index, call, ret, freed, runtimeIndex, local>>

AddCheck(t) ==
    /\ pc[t] = "check"
    /\ call[t].op = "Add"
    /\ LET err == AddChecks(index, call[t].p)
       IN  IF err # Nil
           THEN /\ ret' = [ret EXCEPT ![t] =
                        [NoRet EXCEPT !.err = Annotate(err, "adding client")]]
                /\ pc' = [pc EXCEPT ![t] = "unlock"]
           ELSE /\ pc' = [pc EXCEPT ![t] = "insert"]
                /\ UNCHANGED ret
    /\ UNCHANGED <<index, mu, call, freed, runtimeIndex, local>>

AddInsert(t) ==
    /\ pc[t] = "insert"
    /\ index' = IndexAdd(index, call[t].p)
    /\ ret' = [ret EXCEPT ![t] = NoRet]
    /\ pc' = [pc EXCEPT ![t] = "unlock"]
    /\ UNCHANGED <<mu, call, freed, runtimeIndex, local>>

Unlock(t) ==
    /\ pc[t] = "unlock"
    /\ mu' = FALSE
    /\ pc' = [pc EXCEPT ![t] = "returned"]
    /\ UNCHANGED <<index, call, ret, freed, runtimeIndex, local>>

NextRace ==
    \E t \in Threads :
        \/ \E p \in Persistents : AddCall(t, p)
        \/ Lock(t)
        \/ AddCheck(t)
        \/ AddInsert(t)
        \/ Unlock(t)

SpecRace == Init /\ [][NextRace]_vars

----------------------------------------------------------------------------
\* Vocabulary of the properties: the stored clients and what they claim,
\* read from uidToClient alone, and the lookups of the index.

\* The identifier spaces other than the UID, in the order of the clash check.
Spaces == <<"name", "ip", "subnet", "clientid", "mac">>

AllSpaces == {"uid"} \cup {Spaces[i] : i \in DOMAIN Spaces}

KindOf(space) ==
    CASE space = "uid" -> "DuplicateUID"
      [] space = "name" -> "DuplicateName"
      [] space = "ip" -> "DuplicateIP"
      [] space = "subnet" -> "DuplicateSubnet"
      [] space = "clientid" -> "DuplicateClientID"
      [] space = "mac" -> "DuplicateMAC"

\* The values client c claims in an identifier space.
Values(space, c) ==
    CASE space = "uid" -> {c.UID}
      [] space = "name" -> {c.Name}
      [] space = "ip" -> c.IPs
      [] space = "subnet" -> c.Subnets
      [] space = "clientid" -> c.ClientIDs
      [] space = "mac" -> c.MAC

Shared(space, c, d) == Values(space, c) \cap Values(space, d) # {}

StoredClients(ci) == {ci.uidToClient[u] : u \in DOMAIN ci.uidToClient}

StoredNamed(ci, name) == {c \in StoredClients(ci) : c.Name = name}

\* The stored clients other than the one with this UID.
Others(ci, uid) == {c \in StoredClients(ci) : c.UID # uid}

\* The positions in Spaces where c shares a value with another stored client.
ClashSpaces(ci, c) ==
    {i \in DOMAIN Spaces : \E d \in Others(ci, c.UID) : Shared(Spaces[i], c, d)}

\* The lookup of value v in an identifier space: the client found, or nil.
Lookup(ci, space, v) ==
    LET m == CASE space = "name" -> ci.nameToUID
               [] space = "ip" -> ci.ipToUID
               [] space = "subnet" -> ci.subnetToUID
               [] space = "clientid" -> ci.clientIDToUID
               [] space = "mac" -> ci.macToUID
    IN  IF space = "uid" THEN ClientOf(ci, v)
        ELSE IF v \in DOMAIN m THEN ClientOf(ci, m[v])
        ELSE NoClient

\* Goroutine t's call of op returns in this step.
Returns(t, op) ==
    /\ pc[t] = "idle"
    /\ pc'[t] = "returned"
    /\ call'[t].op = op

\* Goroutine t holds the outcome of a call of op.
Returned(t, op) == pc[t] = "returned" /\ call[t].op = op

----------------------------------------------------------------------------
\* C1: in every reachable state no two distinct stored clients share a UID, a
\* name, an IP, a subnet, a client-id or a MAC.
NoSharedIdentifier ==
    \A c, d \in StoredClients(index) :
        c # d => \A space \in AllSpaces : ~Shared(space, c, d)

\* Two clients are stored, and the latest call was refused for an IP that the
\* other client holds.
C1Witness ==
    /\ IndexSize(index) > 1
    /\ \E t \in Threads : Returned(t, "Update") /\ ret[t].err.kind = "DuplicateIP"

\* C2: Add(p) succeeds exactly when no stored client claims the UID, the
\* name, an IP, a subnet, a client-id or the MAC of p, whatever was stored
\* and released before.
AddSucceedsIffUnclaimed ==
    [][\A t \in Threads :
        Returns(t, "Add") =>
            (ret'[t].err = Nil
                <=> \A c \in StoredClients(index), space \in AllSpaces :
                        ~Shared(space, c, call'[t].p))]_vars

\* An Add succeeded for a name that an earlier call released.
C2Witness ==
    \E t \in Threads :
        /\ Returned(t, "Add")
        /\ ret[t].err = Nil
        /\ call[t].p.Name \in freed

\* C3: an Add that returns an error leaves the index, and with it the size
\* and every lookup, as it was.
FailedAddChangesNothing ==
    [][\A t \in Threads :
        Returns(t, "Add") /\ ret'[t].err # Nil =>
            /\ index' = index
            /\ ret'[t].err.ctx = "adding client"]_vars

\* An Add was refused for a subnet while a client is stored.
C3Witness ==
    \E t \in Threads :
        /\ Returned(t, "Add")
        /\ ret[t].err.kind = "DuplicateSubnet"
        /\ IndexSize(index) > 0

\* C4: an Add of a client whose UID is stored fails with the duplicate-UID
\* error naming the holder of the UID, whatever else the client shares.
DuplicateUIDFirst ==
    [][\A t \in Threads :
        Returns(t, "Add") /\ call'[t].p.UID \in DOMAIN index.uidToClient =>
            /\ ret'[t].err.kind = "DuplicateUID"
            /\ ret'[t].err.holder = index.uidToClient[call'[t].p.UID].Name]_vars

\* An Add was refused for its UID while the client also has the name and an
\* IP of another stored client.
C4Witness ==
    \E t \in Threads :
        /\ Returned(t, "Add")
        /\ ret[t].err.kind = "DuplicateUID"
        /\ \E d \in Others(index, call[t].p.UID) :
                Shared("name", call[t].p, d) /\ Shared("ip", call[t].p, d)

\* err is the error of the first space in which c clashes: it names a value
\* of c in that space and the stored client, other than c, that holds it.
FirstClashReported(ci, c, err) ==
    LET space == Spaces[Min(ClashSpaces(ci, c))]
    IN  /\ err.kind = KindOf(space)
        /\ err.value \in Values(space, c)
        /\ \E d \in Others(ci, c.UID) :
                err.value \in Values(space, d) /\ err.holder = d.Name

\* The client Update checks and stores: n with the UID of the client named name.
Replacement(ci, name, n) ==
    [n EXCEPT !.UID = (CHOOSE c \in StoredNamed(ci, name) : TRUE).UID]

\* C5: a client that clashes in more than one of the spaces name, IP, subnet,
\* client-id, MAC is refused, by Add (its UID being free) and by Update, with
\* the error of the first of these spaces, naming the value and its holder,
\* and the index stays as it was.
FirstClashWins ==
    [][\A t \in Threads :
        /\ ( /\ Returns(t, "Add")
             /\ call'[t].p.UID \notin DOMAIN index.uidToClient
             /\ Cardinality(ClashSpaces(index, call'[t].p)) > 1 )
           => /\ FirstClashReported(index, call'[t].p, ret'[t].err)
              /\ index' = index
        /\ ( /\ Returns(t, "Update")
             /\ StoredNamed(index, call'[t].name) # {}
             /\ Cardinality(ClashSpaces(index,
                    Replacement(index, call'[t].name, call'[t].p))) > 1 )
           => /\ FirstClashReported(index,
                    Replacement(index, call'[t].name, call'[t].p), ret'[t].err)
              /\ index' = index]_vars

\* An Update was refused for an IP although its client also clashes in the
\* client-id and in the MAC.
C5Witness ==
    \E t \in Threads :
        /\ Returned(t, "Update")
        /\ ret[t].err.kind = "DuplicateIP"
        /\ \A space \in {"ip", "clientid", "mac"} :
                \E d \in Others(index, ret[t].n.UID) : Shared(space, ret[t].n, d)

\* C6: an Update that fails, for an unknown name or for a clash, leaves the
\* index as it was.
FailedUpdateChangesNothing ==
    [][\A t \in Threads :
        Returns(t, "Update") /\ ret'[t].err # Nil =>
            /\ index' = index
            /\ StoredClients(index') = StoredClients(index)
            /\ IndexSize(index') = IndexSize(index)
            /\ StoredNamed(index, call'[t].name) = {}
                   <=> ret'[t].err.kind = "NotFound"]_vars

\* An Update of a stored client was refused for a name another client holds.
C6Witness ==
    \E t \in Threads :
        /\ Returned(t, "Update")
        /\ ret[t].err.kind = "DuplicateName"
        /\ StoredNamed(index, call[t].name) # {}

\* C7: after a successful Update the new client stands in place of the one
\* that was named oldName, with that client's UID; the size is the same, the
\* identifiers only the old client claimed are not found any more, and every
\* other client is found as before.
UpdateReplaces ==
    [][\A t \in Threads :
        Returns(t, "Update") /\ ret'[t].err = Nil =>
            /\ StoredNamed(index, call'[t].name) # {}
            /\ LET old == CHOOSE c \in StoredNamed(index, call'[t].name) : TRUE
                   new == [call'[t].p EXCEPT !.UID = old.UID]
               IN  /\ StoredClients(index')
                        = (StoredClients(index) \ {old}) \cup {new}
                   /\ IndexSize(index') = IndexSize(index)
                   /\ \A space \in AllSpaces :
                        /\ \A v \in Values(space, new) :
                                Lookup(index', space, v) = new
                        /\ \A v \in Values(space, old) \ Values(space, new) :
                                Lookup(index', space, v) = NoClient
                        /\ \A c \in Others(index, old.UID) :
                                \A v \in Values(space, c) :
                                    Lookup(index', space, v) = c]_vars

\* An Update succeeded that renames the client and came with a UID other
\* than the stored one: the client is found under the new name only.
C7Witness ==
    \E t \in Threads :
        /\ Returned(t, "Update")
        /\ ret[t].err = Nil
        /\ call[t].p.Name # call[t].name
        /\ call[t].p.UID # ret[t].n.UID
        /\ Lookup(index, "name", call[t].p.Name) = ret[t].n
        /\ Lookup(index, "name", call[t].name) = NoClient

\* C8: an Update whose client shares no name, IP, subnet, client-id or MAC
\* with a stored client other than the one it replaces succeeds.
UpdateIgnoresReplaced ==
    [][\A t \in Threads :
        /\ Returns(t, "Update")
        /\ StoredNamed(index, call'[t].name) # {}
        /\ ClashSpaces(index, Replacement(index, call'[t].name, call'[t].p)) = {}
        => ret'[t].err = Nil]_vars

\* An Update succeeded that keeps the name of the replaced client, holds an
\* IP and a subnet, and came with a UID other than the stored one.
C8Witness ==
    \E t \in Threads :
        /\ Returned(t, "Update")
        /\ ret[t].err = Nil
        /\ call[t].p.Name = call[t].name
        /\ call[t].p.IPs # {}
        /\ call[t].p.Subnets # {}
        /\ call[t].p.UID # ret[t].n.UID

\* C9: RemoveByName returns true exactly when a client of that name is
\* stored; then no lookup finds the removed client and the same call made
\* again returns false; a false result leaves the index as it was.
RemoveByNameRemoves ==
    [][\A t \in Threads :
        Returns(t, "RemoveByName") =>
            /\ ret'[t].ok <=> StoredNamed(index, call'[t].name) # {}
            /\ ret'[t].ok =>
                LET old == CHOOSE c \in StoredNamed(index, call'[t].name) : TRUE
                IN  /\ old \notin StoredClients(index')
                    /\ \A space \in AllSpaces :
                        \A v \in Values(space, old) :
                            Lookup(index', space, v) = NoClient
                    /\ \A closeErr \in BOOLEAN :
                        ~StorageRemoveByName(index', call'[t].name, closeErr).ok
            /\ ~ret'[t].ok => index' = index]_vars

\* A RemoveByName returned true, although closing the upstreams failed, and
\* left another client in the store.
C9Witness ==
    \E t \in Threads :
        /\ Returned(t, "RemoveByName")
        /\ ret[t].ok
        /\ ret[t].logged
        /\ IndexSize(index) > 0

\* Goroutine t's Add has come to its result.
Done(t) == pc[t] \in {"unlock", "returned"} /\ call[t].op = "Add"

\* Two clients claim a common value in some identifier space.
Contend(p, q) == \E space \in AllSpaces : Shared(space, p, q)

\* Every Add called so far by a goroutine other than those of T is for a
\* client that shares nothing with the client of t.
AloneBut(t, T) ==
    \A u \in Threads \ T : call[u].op = "Add" => ~Contend(call[t].p, call[u].p)

ClashKinds == {KindOf(space) : space \in AllSpaces}

\* C10: of concurrent Adds to a new storage, one whose client shares no
\* identifier with the client of another succeeds; two for the same name or
\* the same IP never both succeed, and when no third contends with them
\* exactly one succeeds and the other returns a clash error; the index never
\* holds two clients that share an identifier.
RacingAdds ==
    /\ \A t \in Threads : Done(t) /\ AloneBut(t, {t}) => ret[t].err = Nil
    /\ \A t, u \in Threads :
        ( /\ t # u
          /\ Done(t)
          /\ Done(u)
          /\ Shared("name", call[t].p, call[u].p)
                \/ Shared("ip", call[t].p, call[u].p) )
        => /\ ret[t].err # Nil \/ ret[u].err # Nil
           /\ AloneBut(t, {t, u}) /\ AloneBut(u, {t, u})
                => /\ ret[t].err = Nil \/ ret[u].err = Nil
                   /\ ret[t].err # Nil
                        => /\ ret[t].err.kind \in ClashKinds
                           /\ ret[t].err.ctx = "adding client"
    /\ NoSharedIdentifier

\* Two goroutines have added clients of the same name and different UIDs:
\* one succeeded, the other was refused for the name.
C10Witness ==
    \E t, u \in Threads :
        /\ pc[t] = "returned"
        /\ pc[u] = "returned"
        /\ call[t].p.Name = call[u].p.Name
        /\ call[t].p.UID # call[u].p.UID
        /\ ret[t].err = Nil
        /\ ret[u].err.kind = "DuplicateName"
        /\ Lookup(index, "name", call[t].p.Name) = call[t].p

----------------------------------------------------------------------------
\* The lookups of the storage.  A lookup returns a reference: c is the client
\* referred to, and shared tells whether it is the stored client itself, so
\* that what the caller writes to it is written in the index, or a copy.

NotFound == [c |-> NoClient, found |-> FALSE, shared |-> FALSE]

\* The reference the index returns: the stored client.
StoredRef(c) ==
    IF c = NoClient THEN NotFound ELSE [c |-> c, found |-> TRUE, shared |-> TRUE]

\* Persistent.ShallowClone: a new client with the same top-level fields.
ShallowClone(r) == [r EXCEPT !.shared = FALSE]

IndexFind(ci, id) == StoredRef(Lookup(ci, id.space, id.v))

IndexFindByMAC(ci, mac) == StoredRef(Lookup(ci, "mac", mac))

\* Addresses carry no zone here, so the address is looked up as it is.
IndexFindByIPWithoutZone(ci, ip) == StoredRef(Lookup(ci, "ip", ip))

StorageFindByName(ci, name) == StoredRef(IndexFindByName(ci, name).c)

StorageFind(ci, id) ==
    LET r == IndexFind(ci, id)
    IN  IF r.found THEN ShallowClone(r) ELSE NotFound

StorageFindLoose(ci, ip, id) ==
    LET r == IndexFind(ci, id)
        q == IndexFindByIPWithoutZone(ci, ip)
    IN  IF r.found THEN ShallowClone(r)
        ELSE IF q.found THEN ShallowClone(q)
        ELSE NotFound

StorageFindByMAC(ci, mac) == IndexFindByMAC(ci, mac)

StorageSize(ci) == IndexSize(ci)

\* The result of a lookup, as the goroutine holds it.
RetRef(r) == [NoRet EXCEPT !.ok = r.found, !.c = r.c, !.shared = r.shared]

----------------------------------------------------------------------------
\* Concurrent calls on the persistent clients, in the steps another goroutine
\* can come between.  Every operation begins with Lock and ends with the
\* deferred Unlock; "check" is the first statement after Lock.

\* The clients of the concurrent specifications: with one identifier besides
\* the UID and the name, an address or a MAC.
Simple ==
    {c \in Persistents :
        /\ c.Subnets = {}
        /\ c.ClientIDs = {}
        /\ Cardinality(c.IPs) + Cardinality(c.MAC) = 1}

\* What a function given to RangeByName does with a client: go on, stop, or
\* ask the storage for its size and go on.
Visitors == {"all", "first", "size"}

ReadOps == {"FindByName", "Find", "FindLoose", "FindByMAC", "Size", "RangeByName"}

\* Goroutine t calls an operation and comes to its Lock.
Calls(t, c) ==
    /\ pc[t] = "idle"
    /\ call[t] = NoCall
    /\ call' = [call EXCEPT ![t] = c]
    /\ pc' = [pc EXCEPT ![t] = "lock"]
    /\ UNCHANGED <<index, mu, ret, freed, runtimeIndex, local>>

\* Goroutine t goes from one statement to another, with a result.
Goes(t, from, op, to, r) ==
    /\ pc[t] = from
    /\ call[t].op = op
    /\ pc' = [pc EXCEPT ![t] = to]
    /\ ret' = [ret EXCEPT ![t] = r]

UpdateCall(t, name, n) ==
    Calls(t, [NoCall EXCEPT !.op = "Update", !.name = name, !.p = n])

UpdateCheck(t) ==
    LET f == IndexFindByName(index, call[t].name)
        withUID == [call[t].p EXCEPT !.UID = f.c.UID]
        err == IndexClashes(index, withUID)
    IN  /\ IF ~f.found
           THEN Goes(t, "check", "Update", "unlock",
                    [NoRet EXCEPT !.n = call[t].p,
                        !.err = Annotate(NotFoundErr(call[t].name), "updating client")])
           ELSE IF err # Nil
           THEN Goes(t, "check", "Update", "unlock",
                    [NoRet EXCEPT !.n = withUID,
                        !.err = Annotate(err, "updating client")])
           ELSE Goes(t, "check", "Update", "delete", [NoRet EXCEPT !.n = withUID])
        /\ UNCHANGED <<index, mu, call, freed, runtimeIndex, local>>

\* As UpdateDelete, releasing the mutex once the stored client is deleted.
UpdateDelete_Unlocks(t) ==
    /\ Goes(t, "delete", "Update", "add", ret[t])
    /\ index' = IndexDelete(index, IndexFindByName(index, call[t].name).c)
    /\ mu' = FALSE
    /\ UNCHANGED <<call, freed, runtimeIndex, local>>

UpdateDelete(t) ==
    /\ Goes(t, "delete", "Update", "add", ret[t])
    /\ index' = IndexDelete(index, IndexFindByName(index, call[t].name).c)
    /\ UNCHANGED <<mu, call, freed, runtimeIndex, local>>

UpdateAdd(t) ==
    /\ Goes(t, "add", "Update", "unlock", ret[t])
    /\ index' = IndexAdd(index, ret[t].n)
    /\ UNCHANGED <<mu, call, freed, runtimeIndex, local>>

RemoveCall(t, name) ==
    Calls(t, [NoCall EXCEPT !.op = "RemoveByName", !.name = name])

\* As RemoveFind, releasing the mutex before the upstreams are closed.
RemoveFind_Unlocks(t) ==
    /\ IF IndexFindByName(index, call[t].name).found
       THEN Goes(t, "check", "RemoveByName", "close", NoRet) /\ mu' = FALSE
       ELSE Goes(t, "check", "RemoveByName", "unlock", NoRet) /\ UNCHANGED mu
    /\ UNCHANGED <<index, call, freed, runtimeIndex, local>>

RemoveFind(t) ==
    /\ IF IndexFindByName(index, call[t].name).found
       THEN Goes(t, "check", "RemoveByName", "close", NoRet) /\ UNCHANGED mu
       ELSE Goes(t, "check", "RemoveByName", "unlock", NoRet) /\ UNCHANGED mu
    /\ UNCHANGED <<index, call, freed, runtimeIndex, local>>

\* p.CloseUpstreams has come back, with an error or none; an error is logged.
RemoveClose(t, closeErr) ==
    /\ Goes(t, "close", "RemoveByName", "remove", [NoRet EXCEPT !.logged = closeErr])
    /\ UNCHANGED <<index, mu, call, freed, runtimeIndex, local>>

RemoveDelete(t) ==
    /\ Goes(t, "remove", "RemoveByName", "unlock", [ret[t] EXCEPT !.ok = TRUE])
    /\ index' = IndexDelete(index, IndexFindByName(index, call[t].name).c)
    /\ UNCHANGED <<mu, call, freed, runtimeIndex, local>>

CloseUpstreamsCall(t) == Calls(t, [NoCall EXCEPT !.op = "CloseUpstreams"])

\* index.CloseUpstreams is entered.
CloseUpstreamsBegin(t) ==
    /\ Goes(t, "check", "CloseUpstreams", "close", NoRet)
    /\ UNCHANGED <<index, mu, call, freed, runtimeIndex, local>>

\* index.CloseUpstreams has come back, with an error or none.
CloseUpstreamsEnd(t, closeErr) ==
    /\ Goes(t, "close", "CloseUpstreams", "unlock",
            [NoRet EXCEPT !.err = IF closeErr THEN Err("CloseUpstreams", 0, 0) ELSE Nil])
    /\ UNCHANGED <<index, mu, call, freed, runtimeIndex, local>>

FindByNameCall(t, name) ==
    Calls(t, [NoCall EXCEPT !.op = "FindByName", !.name = name])

FindByNameRead(t) ==
    /\ Goes(t, "check", "FindByName", "unlock",
            RetRef(StorageFindByName(index, call[t].name)))
    /\ UNCHANGED <<index, mu, call, freed, runtimeIndex, local>>

FindCall(t, id) == Calls(t, [NoCall EXCEPT !.op = "Find", !.id = id])

FindRead(t) ==
    /\ Goes(t, "check", "Find", "unlock", RetRef(StorageFind(index, call[t].id)))
    /\ UNCHANGED <<index, mu, call, freed, runtimeIndex, local>>

FindLooseCall(t, ip, id) ==
    Calls(t, [NoCall EXCEPT !.op = "FindLoose", !.ip = ip, !.id = id])

FindLooseRead(t) ==
    /\ Goes(t, "check", "FindLoose", "unlock",
            RetRef(StorageFindLoose(index, call[t].ip, call[t].id)))
    /\ UNCHANGED <<index, mu, call, freed, runtimeIndex, local>>

FindByMACCall(t, mac) ==
    Calls(t, [NoCall EXCEPT !.op = "FindByMAC", !.id = [space |-> "mac", v |-> mac]])

FindByMACRead(t) ==
    /\ Goes(t, "check", "FindByMAC", "unlock",
            RetRef(StorageFindByMAC(index, call[t].id.v)))
    /\ UNCHANGED <<index, mu, call, freed, runtimeIndex, local>>

SizeCall(t) == Calls(t, [NoCall EXCEPT !.op = "Size"])

SizeRead(t) ==
    /\ Goes(t, "check", "Size", "unlock", [NoRet EXCEPT !.size = StorageSize(index)])
    /\ UNCHANGED <<index, mu, call, freed, runtimeIndex, local>>

RangeByNameCall(t, f) == Calls(t, [NoCall EXCEPT !.op = "RangeByName", !.f = f])

\* index.RangeByName is entered: the names it will visit, smallest first.
RangeByNameBegin(t) ==
    /\ Goes(t, "check", "RangeByName", "visit", NoRet)
    /\ local' = [local EXCEPT ![t].iter = DOMAIN index.nameToUID]
    /\ UNCHANGED <<index, mu, call, freed, runtimeIndex>>

\* f is called with the next client.  A function that asks for the size calls
\* Size on the goroutine of RangeByName, which comes to the Lock of Size.
RangeByNameVisit(t) ==
    /\ pc[t] = "visit"
    /\ local[t].iter # {}
    /\ LET name == Min(local[t].iter)
           c == IndexFindByName(index, name).c
       IN  CASE call[t].f = "all" ->
                    /\ local' = [local EXCEPT ![t].iter = @ \ {name}]
                    /\ ret' = [ret EXCEPT ![t].c = c, ![t].size = @ + 1]
                    /\ UNCHANGED <<pc, call>>
              [] call[t].f = "first" ->
                    /\ local' = [local EXCEPT ![t].iter = {}]
                    /\ ret' = [ret EXCEPT ![t].c = c, ![t].size = @ + 1]
                    /\ UNCHANGED <<pc, call>>
              [] call[t].f = "size" ->
                    /\ local' = [local EXCEPT ![t].nested = TRUE]
                    /\ ret' = [ret EXCEPT ![t].c = c, ![t].size = @ + 1]
                    /\ call' = [call EXCEPT ![t].op = "Size"]
                    /\ pc' = [pc EXCEPT ![t] = "lock"]
    /\ UNCHANGED <<index, mu, freed, runtimeIndex>>

RangeByNameEnd(t) ==
    /\ pc[t] = "visit"
    /\ local[t].iter = {}
    /\ pc' = [pc EXCEPT ![t] = "unlock"]
    /\ UNCHANGED <<index, mu, call, ret, freed, runtimeIndex, local>>

\* The goroutines other than Main.
Readers == Threads \ {Main}

\* The steps of goroutine t when Main adds and updates clients and the others
\* look clients up.
StepLock(t) ==
    \/ t = Main /\ \E p \in Simple : AddCall(t, p)
    \/ t = Main /\ \E name \in Names, n \in Simple : UpdateCall(t, name, n)
    \/ t \in Readers /\ \E name \in Names : FindByNameCall(t, name)
    \/ t \in Readers /\ \E id \in IDs : FindCall(t, id)
    \/ t \in Readers /\ \E mac \in MACs : FindByMACCall(t, mac)
    \/ t \in Readers /\ SizeCall(t)
    \/ t \in Readers /\ \E f \in Visitors \ {"size"} : RangeByNameCall(t, f)
    \/ Lock(t)
    \/ AddCheck(t)
    \/ AddInsert(t)
    \/ UpdateCheck(t)
    \/ UpdateDelete(t)
    \/ UpdateAdd(t)
    \/ FindByNameRead(t)
    \/ FindRead(t)
    \/ FindByMACRead(t)
    \/ SizeRead(t)
    \/ RangeByNameBegin(t)
    \/ RangeByNameVisit(t)
    \/ RangeByNameEnd(t)
    \/ Unlock(t)
    \/ Return(t) /\ NoHistory

NextLock == \E t \in Threads : StepLock(t)

SpecLock == Init /\ [][NextLock]_vars

\* The steps of goroutine t when Main adds and removes clients and closes the
\* upstreams, and the others look clients up and range over them.
StepHold(t) ==
    \/ t = Main /\ \E p \in Simple : AddCall(t, p)
    \/ t = Main /\ \E name \in Names : RemoveCall(t, name)
    \/ t = Main /\ CloseUpstreamsCall(t)
    \/ t \in Readers /\ \E ip \in IPs, id \in IDs : FindLooseCall(t, ip, id)
    \/ t \in Readers /\ SizeCall(t)
    \/ t \in Readers /\ \E f \in Visitors : RangeByNameCall(t, f)
    \/ Lock(t)
    \/ AddCheck(t)
    \/ AddInsert(t)
    \/ RemoveFind(t)
    \/ \E closeErr \in BOOLEAN : RemoveClose(t, closeErr)
    \/ RemoveDelete(t)
    \/ CloseUpstreamsBegin(t)
    \/ \E closeErr \in BOOLEAN : CloseUpstreamsEnd(t, closeErr)
    \/ FindLooseRead(t)
    \/ SizeRead(t)
    \/ RangeByNameBegin(t)
    \/ RangeByNameVisit(t)
    \/ RangeByNameEnd(t)
    \/ Unlock(t)
    \/ Return(t) /\ NoHistory

NextHold == \E t \in Threads : StepHold(t)

SpecHold == Init /\ [][NextHold]_vars

\* Goroutine t is between Lock and Unlock.
Inside(t) ==
    \/ pc[t] \in {"check", "insert", "delete", "add", "close", "remove",
                    "visit", "unlock"}
    \/ local[t].nested

\* The stored client of an Update is deleted and the new one is not yet added.
Torn == \E u \in Threads : pc[u] = "add"

\* Every lookup map holds exactly the identifiers of the stored clients.
Consistent(ci) ==
    \A i \in DOMAIN Spaces :
        /\ \A c \in StoredClients(ci) :
            \A v \in Values(Spaces[i], c) : Lookup(ci, Spaces[i], v) = c
        /\ \A v \in 1..Max({NumNames, NumIPs, NumSubnets, NumClientIDs, NumMACs}) :
            Lookup(ci, Spaces[i], v) \in StoredClients(ci) \cup {NoClient}

\* C11: every operation holds the mutex from its first statement to its
\* last, and no two goroutines hold it together; so a lookup, Size or
\* RangeByName never reads the index between the deletion and the insertion
\* of an Update (the client missing, the size one less), nor with a client in
\* some lookup maps and not in others.
LockHeldThroughout ==
    /\ \A t \in Threads : Inside(t) => mu
    /\ \A t, u \in Threads : t # u => ~(Inside(t) /\ Inside(u))
    /\ \A t \in Threads :
        Inside(t) /\ call[t].op \in ReadOps =>
            /\ ~Torn
            /\ Consistent(index)
            /\ pc[t] = "unlock" /\ call[t].op = "Size" => ret[t].size = IndexSize(index)
            /\ pc[t] = "unlock" /\ call[t].op = "FindByName" =>
                    ret[t].c = Lookup(index, "name", call[t].name)

\* An Update has deleted the stored client and not yet added the new one,
\* and a lookup called meanwhile waits at its Lock.
C11Witness ==
    \E t, u \in Threads :
        /\ pc[u] = "add"
        /\ call[u].op = "Update"
        /\ pc[t] = "lock"
        /\ call[t].op \in ReadOps
        /\ IndexSize(index) = 1

----------------------------------------------------------------------------
\* The lookups one after another, each one step from Lock to Unlock, and a
\* caller that writes to the client a lookup returned to it.

\* Goroutine t returns from a lookup with reference r.
Finds(t, c, r) ==
    /\ pc[t] = "idle"
    /\ ~mu
    /\ call' = [call EXCEPT ![t] = c]
    /\ ret' = [ret EXCEPT ![t] = RetRef(r)]
    /\ pc' = [pc EXCEPT ![t] = "returned"]
    /\ UNCHANGED <<index, mu, freed, runtimeIndex, local>>

FindByName(t, name) ==
    Finds(t, [NoCall EXCEPT !.op = "FindByName", !.name = name],
          StorageFindByName(index, name))

Find(t, id) ==
    Finds(t, [NoCall EXCEPT !.op = "Find", !.id = id], StorageFind(index, id))

FindLoose(t, ip, id) ==
    Finds(t, [NoCall EXCEPT !.op = "FindLoose", !.ip = ip, !.id = id],
          StorageFindLoose(index, ip, id))

FindByMAC(t, mac) ==
    Finds(t, [NoCall EXCEPT !.op = "FindByMAC", !.id = [space |-> "mac", v |-> mac]],
          StorageFindByMAC(index, mac))

\* The caller sets the top-level fields of the client it got, other than the
\* UID, to those of n.  A client that is the stored one changes in the index,
\* whose lookup maps stay as they are.
Mutate(t, n) ==
    /\ pc[t] = "returned"
    /\ ret[t].ok
    /\ ret[t].c # NoClient
    /\ n.UID = ret[t].c.UID
    /\ n # ret[t].c
    /\ ret' = [ret EXCEPT ![t].c = n]
    /\ index' = IF ret[t].shared
                THEN [index EXCEPT !.uidToClient = Put(@, n.UID, n)]
                ELSE index
    /\ UNCHANGED <<mu, pc, call, freed, runtimeIndex, local>>

NextFind ==
    \/ \E p \in Simple : Add(Main, p) /\ NoHistory
    \/ \E name \in Names : FindByName(Main, name)
    \/ \E id \in IDs : Find(Main, id)
    \/ \E ip \in IPs, id \in IDs : FindLoose(Main, ip, id)
    \/ \E mac \in MACs : FindByMAC(Main, mac)
    \/ \E n \in Simple : Mutate(Main, n)
    \/ Return(Main) /\ NoHistory

SpecFind == Init /\ [][NextFind]_vars

\* Goroutine t writes to the client a lookup returned to it.
Mutates(t) ==
    /\ pc[t] = "returned"
    /\ pc'[t] = "returned"
    /\ ret'[t].c # ret[t].c

\* C12: a caller that writes to the client returned by Find, FindLoose,
\* FindByName or FindByMAC changes neither what the storage holds nor what
\* a later lookup returns.
LookupsReturnCopies ==
    [][\A t \in Threads :
        Mutates(t) =>
            /\ index' = index
            /\ \A name \in Names :
                StorageFindByName(index', name) = StorageFindByName(index, name)
            /\ \A id \in IDs : StorageFind(index', id) = StorageFind(index, id)]_vars

----------------------------------------------------------------------------
\* The operations on the runtime clients, one after another.  None of them
\* takes the mutex.

\* Goroutine t returns from an operation on the runtime clients.
Runs(t, c, ri, r) ==
    /\ pc[t] = "idle"
    /\ call' = [call EXCEPT ![t] = c]
    /\ runtimeIndex' = ri
    /\ ret' = [ret EXCEPT ![t] = r]
    /\ pc' = [pc EXCEPT ![t] = "returned"]
    /\ UNCHANGED <<index, mu, freed, local>>

ClientRuntime(t, ip) ==
    LET rc == StorageClientRuntime(runtimeIndex, ip)
    IN  Runs(t, [NoCall EXCEPT !.op = "ClientRuntime", !.ip = ip], runtimeIndex,
             [NoRet EXCEPT !.ok = rc # NoRuntime, !.rc = rc])

\* AddRuntime returns nothing; as history, rc keeps the entry the address had
\* before the call, nil when it had none.
AddRuntime(t, rc) ==
    Runs(t, [NoCall EXCEPT !.op = "AddRuntime", !.rc = rc],
         StorageAddRuntime(runtimeIndex, rc),
         [NoRet EXCEPT !.rc = StorageClientRuntime(runtimeIndex, rc.ip)])

SizeRuntime(t) ==
    Runs(t, [NoCall EXCEPT !.op = "SizeRuntime"], runtimeIndex,
         [NoRet EXCEPT !.size = StorageSizeRuntime(runtimeIndex)])

\* f is called with the runtime clients in an order not defined, until it
\* returns false: size counts the calls, rc is the client of the last one.
RangeRuntime(t, f) ==
    \/ /\ runtimeIndex = <<>>
       /\ Runs(t, [NoCall EXCEPT !.op = "RangeRuntime", !.f = f], runtimeIndex, NoRet)
    \/ \E ip \in DOMAIN runtimeIndex :
            Runs(t, [NoCall EXCEPT !.op = "RangeRuntime", !.f = f], runtimeIndex,
                 [NoRet EXCEPT !.rc = runtimeIndex[ip],
                     !.size = IF f = "first" THEN 1
                              ELSE StorageSizeRuntime(runtimeIndex)])

DeleteRuntime(t, ip) ==
    Runs(t, [NoCall EXCEPT !.op = "DeleteRuntime", !.ip = ip],
         StorageDeleteRuntime(runtimeIndex, ip), NoRet)

DeleteBySource(t, src) ==
    LET r == StorageDeleteBySource(runtimeIndex, src)
    IN  Runs(t, [NoCall EXCEPT !.op = "DeleteBySource", !.src = src],
             r.runtimeIndex, [NoRet EXCEPT !.size = r.n])

NextRuntime ==
    \/ \E p \in Simple : Add(Main, p) /\ NoHistory
    \/ \E ip \in IPs : ClientRuntime(Main, ip)
    \/ \E rc \in Runtimes : AddRuntime(Main, rc)
    \/ SizeRuntime(Main)
    \/ \E f \in Visitors \ {"size"} : RangeRuntime(Main, f)
    \/ \E ip \in IPs : DeleteRuntime(Main, ip)
    \/ \E src \in Sources : DeleteBySource(Main, src)
    \/ Return(Main) /\ NoHistory

SpecRuntime == Init /\ [][NextRuntime]_vars

\* The sources that have given information about the entry of ip.
SourcesOf(ri, ip) == IF ip \in DOMAIN ri THEN DOMAIN ri[ip].info ELSE {}

\* C13: DeleteBySource(src) removes an entry exactly when src is the only
\* source with information in it, so an entry with information from another
\* source stays; it returns the number of entries it removed.
DeleteBySourceRemovesLast ==
    [][\A t \in Threads :
        Returns(t, "DeleteBySource") =>
            LET removed == DOMAIN runtimeIndex \ DOMAIN runtimeIndex'
            IN  /\ \A ip \in DOMAIN runtimeIndex :
                    ip \in removed <=> SourcesOf(runtimeIndex, ip) = {call'[t].src}
                /\ ret'[t].size = Cardinality(removed)]_vars

\* C14: an address has an entry exactly when some source has information
\* about it, so SizeRuntime is the number of addresses with information from
\* at least one source.
EntryIffSource ==
    /\ \A ip \in IPs : ip \in DOMAIN runtimeIndex <=> SourcesOf(runtimeIndex, ip) # {}
    /\ StorageSizeRuntime(runtimeIndex)
            = Cardinality({ip \in IPs : SourcesOf(runtimeIndex, ip) # {}})

DeleteBySourceOnlySource ==
    [][\A t \in Threads :
        Returns(t, "DeleteBySource") =>
            /\ \A ip \in DOMAIN runtimeIndex' :
                /\ ip \in DOMAIN runtimeIndex
                /\ \A s \in Sources \ {call'[t].src} :
                    /\ s \in SourcesOf(runtimeIndex', ip) <=> s \in SourcesOf(runtimeIndex, ip)
                    /\ s \in SourcesOf(runtimeIndex, ip) =>
                            runtimeIndex'[ip].info[s] = runtimeIndex[ip].info[s]
            /\ \A ip \in DOMAIN runtimeIndex :
                call'[t].src \notin SourcesOf(runtimeIndex, ip) =>
                    /\ ip \in DOMAIN runtimeIndex'
                    /\ runtimeIndex'[ip] = runtimeIndex[ip]
            /\ index' = index]_vars

----------------------------------------------------------------------------
\* Concurrent calls on the runtime clients.  No operation takes a lock, so a
\* goroutine can come between two rounds of the loop of DeleteBySource.  The
\* other operations are single accesses to the map.  An access while another
\* goroutine is in its loop is a data race on the map: either the accesses
\* fall one after another, or the Go runtime detects the race and ends the
\* program ("fatal error: concurrent map iteration and map write").

DeleteBySourceCall(t, src) ==
    /\ pc[t] = "idle"
    /\ call' = [call EXCEPT ![t] = [NoCall EXCEPT !.op = "DeleteBySource", !.src = src]]
    /\ local' = [local EXCEPT ![t].iter = DOMAIN runtimeIndex]
    /\ pc' = [pc EXCEPT ![t] = "range"]
    /\ UNCHANGED <<index, mu, ret, freed, runtimeIndex>>

\* One round of the loop; an entry deleted meanwhile is not visited.
DeleteBySourceRound(t, ip) ==
    /\ pc[t] = "range"
    /\ ip \in local[t].iter
    /\ local' = [local EXCEPT ![t].iter = @ \ {ip}]
    /\ IF ip \in DOMAIN runtimeIndex
       THEN LET r == DeleteBySourceVisit(runtimeIndex, ip, call[t].src)
            IN  /\ runtimeIndex' = r.runtimeIndex
                /\ ret' = [ret EXCEPT ![t].size = @ + r.n]
       ELSE UNCHANGED <<runtimeIndex, ret>>
    /\ UNCHANGED <<index, mu, pc, call, freed>>

DeleteBySourceReturn(t) ==
    /\ pc[t] = "range"
    /\ local[t].iter = {}
    /\ pc' = [pc EXCEPT ![t] = "returned"]
    /\ UNCHANGED <<index, mu, call, ret, freed, runtimeIndex, local>>

\* Goroutine t is in the loop of DeleteBySource.
Ranging(t) == pc[t] = "range"

\* The Go runtime detects the access of goroutine t to the map while another
\* goroutine is in its loop, and ends the program.
Fatal(t) ==
    /\ pc[t] \in {"idle", "range"}
    /\ \E u \in Threads \ {t} : Ranging(u)
    /\ pc' = [u \in Threads |-> "fatal"]
    /\ UNCHANGED <<index, mu, call, ret, freed, runtimeIndex, local>>

\* Main makes the single accesses, the other goroutines call DeleteBySource.
NextRuntimeRace ==
    \/ \E ip \in IPs : ClientRuntime(Main, ip)
    \/ \E rc \in Runtimes : AddRuntime(Main, rc)
    \/ SizeRuntime(Main)
    \/ \E f \in Visitors \ {"size"} : RangeRuntime(Main, f)
    \/ \E ip \in IPs : DeleteRuntime(Main, ip)
    \/ \E t \in Threads \ {Main}, src \in Sources : DeleteBySourceCall(t, src)
    \/ \E t \in Threads, ip \in IPs : DeleteBySourceRound(t, ip)
    \/ \E t \in Threads : DeleteBySourceReturn(t)
    \/ \E t \in Threads : Fatal(t)
    \/ \E t \in Threads : Return(t) /\ NoHistory

SpecRuntimeRace == Init /\ [][NextRuntimeRace]_vars

\* Goroutine t accesses the map of the runtime clients in this step.
Accesses(t) ==
    /\ <<pc[t], local[t]>> # <<pc'[t], local'[t]>>
    /\ pc'[t] \notin {"idle", "fatal"}
    /\ ~(pc[t] = "range" /\ pc'[t] = "returned")

\* C16: the operations on the runtime clients exclude one another: no
\* goroutine accesses the map while another is in an operation on it, so none
\* comes upon a DeleteBySource that has visited some entries and not others.
RuntimeExclusive ==
    [][\A t \in Threads :
        Accesses(t) => \A u \in Threads \ {t} : ~Ranging(u)]_vars

----------------------------------------------------------------------------
\* What a goroutine does while it holds the mutex.

\* Goroutine t is closing upstreams: it has called p.CloseUpstreams or
\* index.CloseUpstreams, which has not come back.
Closing(t) == pc[t] = "close"

ClosingOps == {"RemoveByName", "CloseUpstreams"}

Calling(t) == pc[t] \notin {"idle", "returned"}

\* C19: no call hangs: a goroutine in a call can take its next step, or waits
\* for the mutex held by another goroutine that can take its next step; so
\* also when the function given to RangeByName calls the storage.
NoHang ==
    \A t \in Threads :
        Calling(t) =>
            \/ ENABLED StepHold(t)
            \/ \E u \in Threads \ {t} : Inside(u) /\ ENABLED StepHold(u)

\* C20: RemoveByName of a stored client returns true and removes it, with
\* no error returned and the same outcome whether closing its upstreams
\* fails or not.
RemoveByNameSwallows ==
    [][\A t \in Threads :
        Returns(t, "RemoveByName") /\ StoredNamed(index, call'[t].name) # {} =>
            /\ ret'[t].ok
            /\ ret'[t].err = Nil
            /\ StoredNamed(index', call'[t].name) = {}
            /\ Lookup(index', "name", call'[t].name) = NoClient
            /\ IndexSize(index') = IndexSize(index) - 1
            /\ \A closeErr \in BOOLEAN :
                LET r == StorageRemoveByName(index, call'[t].name, closeErr)
                IN  r.ok /\ r.index = index']_vars

\* A RemoveByName whose closing of the upstreams failed has returned true,
\* without an error, and the name is no longer found.
C20Witness ==
    \E t \in Threads :
        /\ Returned(t, "RemoveByName")
        /\ ret[t].logged
        /\ ret[t].ok
        /\ ret[t].err = Nil
        /\ Lookup(index, "name", call[t].name) = NoClient

====
